---- MODULE Spec2Model ----
(***************************************************************************)
(* The rescheduling workflow of TechMeet: POST /reschedule                 *)
(* (src/src/routes/requestRescheduleRoute.ts) and POST /handle-Reschedule  *)
(* (src/src/routes/ExpertRoutes.ts), run as concurrent async request       *)
(* handlers over the Booking and ReschedulingRequest collections.  Every   *)
(* `await` of a handler is a point where another handler may run; the      *)
(* synchronous code between two awaits is one step.                        *)
(***************************************************************************)
EXTENDS Naturals, FiniteSets, TLC

VARIABLES
    bookings,   \* Booking collection: _id -> [dateId, slotId, status]
    requests,   \* ReschedulingRequest collection: a set of documents
    pc,         \* per handler invocation: the await it is suspended at
    body,       \* per handler invocation: req.body
    modified,   \* per handler invocation: modified paths of the loaded booking document
    res,        \* per handler invocation: the response sent (res.status(..).json(..))
    calls,      \* number of requests received so far
    deleted,    \* per handler invocation: deletedCount its deleteOne resolved with
    params,     \* per handler invocation: req.params.ExpertId
    list        \* per handler invocation: the list of the response body

vars == <<bookings, requests, pc, body, modified, res, calls, deleted, params, list>>

----------------------------------------------------------------------------
(* Bounds of the model *)

\* Number of HTTP requests the server receives in one behaviour.
MaxCalls == 3

\* Concurrent handler invocations (requests in flight at the same time).
Procs == {"h1", "h2"}

----------------------------------------------------------------------------
(* Identifiers *)

\* Bookings held by the Booking collection (created by the booking flow,
\* never created or deleted by these routes).
ExistingBookings == {"B1", "B2"}

\* "B9" is a well-formed ObjectId that names no booking.
BodyBookingIds == ExistingBookings \cup {"B9"}

DateIds == {"D1", "D2"}
SlotIds == {"S1"}

\* A string that is not a well-formed ObjectId.
MalformedId == "zz"

BodyDateIds == DateIds \cup {MalformedId}
BodySlotIds == SlotIds \cup {MalformedId}

\* Date and slot every booking starts with.
InitialDateId == "D0"
InitialSlotId == "S0"

WellFormedIds == BodyBookingIds \cup DateIds \cup SlotIds \cup {InitialDateId, InitialSlotId}

\* mongoose.Types.ObjectId.isValid
ObjectIdIsValid(id) == id \in WellFormedIds

\* DateModel collection: the Date documents and the slots each one owns
\* (slotsId).  "D2" is a well-formed ObjectId that names no Date.
DateSlots == [d \in {InitialDateId, "D1"} |-> IF d = "D1" THEN {"S1"} ELSE {InitialSlotId}]

\* Expert collection; "E9" is a well-formed ObjectId that names no expert.
Experts == {"E1", "E2"}
ParamExpertIds == Experts \cup {"E9"}

\* expertId of each booking (populated by the list routes).
BookingExpertId == [b \in ExistingBookings |-> IF b = "B1" THEN "E1" ELSE "E2"]

Actions == {"accepted", "rejected", "postponed"}

\* Status enum of the booking model
CONFIRMED == "CONFIRMED"
RESCHEDULED == "RESCHEDULED"

----------------------------------------------------------------------------
(* HTTP responses *)

HTTP_OK == 200
HTTP_CREATED == 201
HTTP_BAD_REQUEST == 400
HTTP_NOT_FOUND == 404
HTTP_INTERNAL == 500

NoError == "-"
Response(status, message, error) == [status |-> status, message |-> message, error |-> error]
NoResponse == Response(0, "-", NoError)

\* Errors a storage call can reject with.
StorageFailure == "StorageFailure"
DuplicateRequest == "DuplicateRequest"

\* req.params of a route without an :ExpertId
NoParam == "-"

NoBody == [CurrentBookingId |-> "-", RequestedDateId |-> "-", RequestedSlotId |-> "-", action |-> "-"]

BookingPaths == {"dateId", "slotId", "status"}

----------------------------------------------------------------------------
(* Storage *)

RequestsFor(store, b) == {r \in store : r.CurrentBookingId = b}

\* reschedulingRequestSchemaZod.parse: the three identifiers are well-formed.
reschedulingRequestSchemaZod_parse(bd) ==
    /\ ObjectIdIsValid(bd.CurrentBookingId)
    /\ ObjectIdIsValid(bd.RequestedDateId)
    /\ ObjectIdIsValid(bd.RequestedSlotId)

\* ReschedulingRequest document .save(): one conditional insert, rejected when
\* a request for the same booking is already stored.
ReschedulingRequest_save(store, doc) ==
    IF RequestsFor(store, doc.CurrentBookingId) # {}
    THEN [error |-> DuplicateRequest, store |-> store]
    ELSE [error |-> NoError, store |-> store \cup {doc}]

\* Variant of ReschedulingRequest_deleteOne: the filter names a path no stored
\* document carries, so nothing matches.
ReschedulingRequest_deleteOne_NoMatch(store, b) == {store}

\* Variant of ReschedulingRequest_deleteOne: the filter is dropped, so the
\* call removes any one stored document.
ReschedulingRequest_deleteOne_AnyDocument(store, b) ==
    IF store = {}
    THEN {store}
    ELSE {store \ {r} : r \in store}

\* ReschedulingRequest.deleteOne({CurrentBookingId}): the stores it can leave,
\* one matching document removed, or nothing removed when none matches.
ReschedulingRequest_deleteOne(store, b) ==
    IF RequestsFor(store, b) = {}
    THEN {store}
    ELSE {store \ {r} : r \in RequestsFor(store, b)}

\* BookingSchema.findById
BookingSchema_findById(store, b) == b \in DOMAIN store

----------------------------------------------------------------------------
(* POST /reschedule *)

\* new ReschedulingRequest({...}) from the validated body
NewReschedulingRequest(bd) ==
    [CurrentBookingId |-> bd.CurrentBookingId,
     RequestedDateId  |-> bd.RequestedDateId,
     RequestedSlotId  |-> bd.RequestedSlotId]

\* Variant of PostReschedule_Persist: the route writes the request with an
\* upsert keyed by the booking instead of inserting a new document.
PostReschedule_Persist_Upsert(store, bd) ==
    [error |-> NoError,
     store |-> (store \ RequestsFor(store, bd.CurrentBookingId)) \cup {NewReschedulingRequest(bd)}]

\* Variant of PostReschedule_Persist: the document is inserted without the
\* one-request-per-booking condition.
PostReschedule_Persist_PlainInsert(store, bd) ==
    [error |-> NoError, store |-> store \cup {NewReschedulingRequest(bd)}]

\* await newReschedulingRequest.save()
PostReschedule_Persist(store, bd) ==
    ReschedulingRequest_save(store, NewReschedulingRequest(bd))

\* Variant of PostReschedule_Respond: the catch block rethrows an error that
\* is not a ZodError, so no response is sent for it.
PostReschedule_Respond_Rethrows(error) ==
    IF error = NoError
    THEN Response(HTTP_CREATED, "Rescheduling request created successfully", NoError)
    ELSE NoResponse

\* The response after save() settled with `error` (NoError: resolved).
PostReschedule_Respond(error) ==
    IF error = NoError
    THEN Response(HTTP_CREATED, "Rescheduling request created successfully", NoError)
    ELSE Response(HTTP_INTERNAL, "Internal server error", error)

\* The handler up to its first await: parse the body, then call save().
PostReschedule_Start(p) ==
    /\ pc[p] \in {"idle", "done"}
    /\ calls < MaxCalls
    /\ \E b \in BodyBookingIds, d \in BodyDateIds, s \in BodySlotIds :
         LET bd == [CurrentBookingId |-> b, RequestedDateId |-> d,
                    RequestedSlotId |-> s, action |-> "-"]
         IN /\ body' = [body EXCEPT ![p] = bd]
            /\ IF reschedulingRequestSchemaZod_parse(bd)
               THEN /\ pc' = [pc EXCEPT ![p] = "save"]
                    /\ res' = [res EXCEPT ![p] = NoResponse]
               ELSE /\ pc' = [pc EXCEPT ![p] = "done"]
                    /\ res' = [res EXCEPT ![p] = Response(HTTP_BAD_REQUEST, "errors", "ZodError")]
    /\ modified' = [modified EXCEPT ![p] = {}]
    /\ deleted' = [deleted EXCEPT ![p] = 0]
    /\ params' = [params EXCEPT ![p] = NoParam]
    /\ list' = [list EXCEPT ![p] = {}]
    /\ calls' = calls + 1
    /\ UNCHANGED <<bookings, requests>>

\* Variant of PostReschedule_Save: on success the route also marks the booking
\* as being rescheduled.
PostReschedule_Save_MarksBooking(p) ==
    /\ pc[p] = "save"
    /\ \/ /\ res' = [res EXCEPT ![p] = PostReschedule_Respond(StorageFailure)]
          /\ UNCHANGED <<requests, bookings>>
       \/ LET r == PostReschedule_Persist(requests, body[p])
              b == body[p].CurrentBookingId
          IN /\ requests' = r.store
             /\ res' = [res EXCEPT ![p] = PostReschedule_Respond(r.error)]
             /\ bookings' = IF r.error = NoError /\ b \in DOMAIN bookings
                            THEN [bookings EXCEPT ![b].status = RESCHEDULED]
                            ELSE bookings
    /\ pc' = [pc EXCEPT ![p] = "done"]
    /\ UNCHANGED <<body, modified, calls, deleted, params, list>>

\* save() settles and the handler responds.
PostReschedule_Save(p) ==
    /\ pc[p] = "save"
    /\ \/ \* the storage call itself fails
          /\ res' = [res EXCEPT ![p] = PostReschedule_Respond(StorageFailure)]
          /\ UNCHANGED requests
       \/ LET r == PostReschedule_Persist(requests, body[p])
          IN /\ requests' = r.store
             /\ res' = [res EXCEPT ![p] = PostReschedule_Respond(r.error)]
    /\ pc' = [pc EXCEPT ![p] = "done"]
    /\ UNCHANGED <<bookings, body, modified, calls, deleted, params, list>>

----------------------------------------------------------------------------
(* POST /handle-Reschedule *)

\* The values the accepted branch assigns to the loaded booking document.
AcceptedValues(bd) ==
    [dateId |-> bd.RequestedDateId, slotId |-> bd.RequestedSlotId, status |-> RESCHEDULED]

\* Variant of HandleReschedule_AfterFind: the rejected branch also marks the
\* booking and saves it.
HandleReschedule_AfterFind_RejectSaves(found, loaded, bd) ==
    IF ~found
    THEN [pc |-> "done", res |-> Response(HTTP_NOT_FOUND, "Booking not found", NoError),
          modified |-> {}]
    ELSE IF bd.action = "accepted"
    THEN IF ~ObjectIdIsValid(bd.RequestedDateId) \/ ~ObjectIdIsValid(bd.RequestedSlotId)
         THEN [pc |-> "done",
               res |-> Response(HTTP_BAD_REQUEST, "Invalid date or slot ID", NoError),
               modified |-> {}]
         ELSE [pc |-> "bookingSave", res |-> NoResponse,
               modified |-> {f \in BookingPaths : AcceptedValues(bd)[f] # loaded[f]}]
    ELSE IF bd.action = "rejected"
    THEN [pc |-> "bookingSave", res |-> NoResponse,
          modified |-> {f \in {"status"} : AcceptedValues(bd)[f] # loaded[f]}]
    ELSE [pc |-> "done", res |-> Response(HTTP_BAD_REQUEST, "Invalid action", NoError),
          modified |-> {}]

\* Variant of HandleReschedule_AfterFind: an action that is not "accepted" is
\* handled as a rejection (no final else branch).
HandleReschedule_AfterFind_NoElse(found, loaded, bd) ==
    IF ~found
    THEN [pc |-> "done", res |-> Response(HTTP_NOT_FOUND, "Booking not found", NoError),
          modified |-> {}]
    ELSE IF bd.action = "accepted"
    THEN IF ~ObjectIdIsValid(bd.RequestedDateId) \/ ~ObjectIdIsValid(bd.RequestedSlotId)
         THEN [pc |-> "done",
               res |-> Response(HTTP_BAD_REQUEST, "Invalid date or slot ID", NoError),
               modified |-> {}]
         ELSE [pc |-> "bookingSave", res |-> NoResponse,
               modified |-> {f \in BookingPaths : AcceptedValues(bd)[f] # loaded[f]}]
    ELSE [pc |-> "deleteOne", res |-> NoResponse, modified |-> {}]

\* Variant of HandleReschedule_AfterFind: the accepted branch refuses the
\* identifiers only when both are malformed (&& for ||).
HandleReschedule_AfterFind_BothInvalid(found, loaded, bd) ==
    IF ~found
    THEN [pc |-> "done", res |-> Response(HTTP_NOT_FOUND, "Booking not found", NoError),
          modified |-> {}]
    ELSE IF bd.action = "accepted"
    THEN IF ~ObjectIdIsValid(bd.RequestedDateId) /\ ~ObjectIdIsValid(bd.RequestedSlotId)
         THEN [pc |-> "done",
               res |-> Response(HTTP_BAD_REQUEST, "Invalid date or slot ID", NoError),
               modified |-> {}]
         ELSE [pc |-> "bookingSave", res |-> NoResponse,
               modified |-> {f \in BookingPaths : AcceptedValues(bd)[f] # loaded[f]}]
    ELSE IF bd.action = "rejected"
    THEN [pc |-> "deleteOne", res |-> NoResponse, modified |-> {}]
    ELSE [pc |-> "done", res |-> Response(HTTP_BAD_REQUEST, "Invalid action", NoError),
          modified |-> {}]

\* Variant of HandleReschedule_AfterFind: the action and the identifiers are
\* checked before the booking lookup's result.
HandleReschedule_AfterFind_ChecksFirst(found, loaded, bd) ==
    IF bd.action \notin {"accepted", "rejected"}
    THEN [pc |-> "done", res |-> Response(HTTP_BAD_REQUEST, "Invalid action", NoError),
          modified |-> {}]
    ELSE IF /\ bd.action = "accepted"
            /\ (~ObjectIdIsValid(bd.RequestedDateId) \/ ~ObjectIdIsValid(bd.RequestedSlotId))
    THEN [pc |-> "done",
          res |-> Response(HTTP_BAD_REQUEST, "Invalid date or slot ID", NoError),
          modified |-> {}]
    ELSE IF ~found
    THEN [pc |-> "done", res |-> Response(HTTP_NOT_FOUND, "Booking not found", NoError),
          modified |-> {}]
    ELSE IF bd.action = "accepted"
    THEN [pc |-> "bookingSave", res |-> NoResponse,
          modified |-> {f \in BookingPaths : AcceptedValues(bd)[f] # loaded[f]}]
    ELSE [pc |-> "deleteOne", res |-> NoResponse, modified |-> {}]

\* The synchronous code after findById resolved: `found` tells whether a
\* booking was loaded, `loaded` is the loaded document.  It yields the await
\* the handler suspends at next (or "done"), the response if it returns, and
\* the paths of the document the assignments changed.
HandleReschedule_AfterFind(found, loaded, bd) ==
    IF ~found
    THEN [pc |-> "done", res |-> Response(HTTP_NOT_FOUND, "Booking not found", NoError),
          modified |-> {}]
    ELSE IF bd.action = "accepted"
    THEN IF ~ObjectIdIsValid(bd.RequestedDateId) \/ ~ObjectIdIsValid(bd.RequestedSlotId)
         THEN [pc |-> "done",
               res |-> Response(HTTP_BAD_REQUEST, "Invalid date or slot ID", NoError),
               modified |-> {}]
         ELSE [pc |-> "bookingSave", res |-> NoResponse,
               modified |-> {f \in BookingPaths : AcceptedValues(bd)[f] # loaded[f]}]
    ELSE IF bd.action = "rejected"
    THEN [pc |-> "deleteOne", res |-> NoResponse, modified |-> {}]
    ELSE [pc |-> "done", res |-> Response(HTTP_BAD_REQUEST, "Invalid action", NoError),
          modified |-> {}]

\* The response after deleteOne resolved.
HandleReschedule_Success(bd) ==
    IF bd.action = "accepted"
    THEN Response(HTTP_OK, "Reschedule request accepted successfully", NoError)
    ELSE Response(HTTP_OK, "Reschedule request rejected successfully", NoError)

\* The catch block.
HandleReschedule_Catch(error) == Response(HTTP_INTERNAL, "Internal server error", error)

\* booking.save(): writes the modified paths of the document.
BookingSave(store, b, paths, values) ==
    [store EXCEPT ![b] = [f \in BookingPaths |-> IF f \in paths THEN values[f] ELSE @[f]]]

\* The handler up to its first await: read the body, call findById.  The
\* date and slot of the body are read by the accepted branch only.
HandleReschedule_Start(p) ==
    /\ pc[p] \in {"idle", "done"}
    /\ calls < MaxCalls
    /\ \E b \in BodyBookingIds, a \in Actions :
         \E d \in (IF a = "accepted" THEN BodyDateIds ELSE {"D1"}),
            s \in (IF a = "accepted" THEN BodySlotIds ELSE {"S1"}) :
           body' = [body EXCEPT ![p] = [CurrentBookingId |-> b, RequestedDateId |-> d,
                                        RequestedSlotId |-> s, action |-> a]]
    /\ pc' = [pc EXCEPT ![p] = "findById"]
    /\ res' = [res EXCEPT ![p] = NoResponse]
    /\ modified' = [modified EXCEPT ![p] = {}]
    /\ deleted' = [deleted EXCEPT ![p] = 0]
    /\ params' = [params EXCEPT ![p] = NoParam]
    /\ list' = [list EXCEPT ![p] = {}]
    /\ calls' = calls + 1
    /\ UNCHANGED <<bookings, requests>>

\* findById settles; the handler runs to its next await or returns.
HandleReschedule_FindById(p) ==
    /\ pc[p] = "findById"
    /\ \/ /\ pc' = [pc EXCEPT ![p] = "done"]
          /\ res' = [res EXCEPT ![p] = HandleReschedule_Catch(StorageFailure)]
          /\ UNCHANGED modified
       \/ LET b == body[p].CurrentBookingId
              found == BookingSchema_findById(bookings, b)
              loaded == IF found THEN bookings[b] ELSE [f \in BookingPaths |-> "-"]
              next == HandleReschedule_AfterFind(found, loaded, body[p])
          IN /\ pc' = [pc EXCEPT ![p] = next.pc]
             /\ res' = [res EXCEPT ![p] = next.res]
             /\ modified' = [modified EXCEPT ![p] = next.modified]
    /\ UNCHANGED <<bookings, requests, body, calls, deleted, params, list>>

\* Variant of HandleReschedule_BookingSave: a failure of booking.save() is
\* swallowed and the handler goes on to deleteOne.
HandleReschedule_BookingSave_IgnoresFailure(p) ==
    /\ pc[p] = "bookingSave"
    /\ \/ UNCHANGED bookings
       \/ bookings' = BookingSave(bookings, body[p].CurrentBookingId, modified[p],
                                  AcceptedValues(body[p]))
    /\ pc' = [pc EXCEPT ![p] = "deleteOne"]
    /\ UNCHANGED <<requests, body, modified, res, calls, deleted, params, list>>

\* booking.save() settles; the handler calls deleteOne.
HandleReschedule_BookingSave(p) ==
    /\ pc[p] = "bookingSave"
    /\ \/ /\ pc' = [pc EXCEPT ![p] = "done"]
          /\ res' = [res EXCEPT ![p] = HandleReschedule_Catch(StorageFailure)]
          /\ UNCHANGED bookings
       \/ /\ bookings' = BookingSave(bookings, body[p].CurrentBookingId, modified[p],
                                     AcceptedValues(body[p]))
          /\ pc' = [pc EXCEPT ![p] = "deleteOne"]
          /\ UNCHANGED res
    /\ UNCHANGED <<requests, body, modified, calls, deleted, params, list>>

\* Variant of HandleReschedule_DeleteOne: a rejection cancels the booking,
\* removing it together with its request.
HandleReschedule_DeleteOne_CancelsBooking(p) ==
    /\ pc[p] = "deleteOne"
    /\ \/ /\ res' = [res EXCEPT ![p] = HandleReschedule_Catch(StorageFailure)]
          /\ UNCHANGED <<requests, deleted, bookings>>
       \/ /\ requests' \in ReschedulingRequest_deleteOne(requests, body[p].CurrentBookingId)
          /\ deleted' = [deleted EXCEPT ![p] = Cardinality(requests \ requests')]
          /\ res' = [res EXCEPT ![p] = HandleReschedule_Success(body[p])]
          /\ bookings' = IF body[p].action = "rejected"
                         THEN [b \in DOMAIN bookings \ {body[p].CurrentBookingId} |-> bookings[b]]
                         ELSE bookings
    /\ pc' = [pc EXCEPT ![p] = "done"]
    /\ UNCHANGED <<body, modified, calls, params, list>>

\* deleteOne settles; the handler responds.
HandleReschedule_DeleteOne(p) ==
    /\ pc[p] = "deleteOne"
    /\ \/ /\ res' = [res EXCEPT ![p] = HandleReschedule_Catch(StorageFailure)]
          /\ UNCHANGED <<requests, deleted>>
       \/ /\ requests' \in ReschedulingRequest_deleteOne(requests, body[p].CurrentBookingId)
          /\ deleted' = [deleted EXCEPT ![p] = Cardinality(requests \ requests')]
          /\ res' = [res EXCEPT ![p] = HandleReschedule_Success(body[p])]
    /\ pc' = [pc EXCEPT ![p] = "done"]
    /\ UNCHANGED <<bookings, body, modified, calls, params, list>>

----------------------------------------------------------------------------
(* GET /reschedule-requests/:ExpertId *)

\* Expert.findById
Expert_findById(e) == e \in Experts

\* ReschedulingRequest.find({expertId: ExpertId}): the results it can have.
\* No document written by POST /reschedule carries an expertId.  When the
\* schema declares the path no document matches; when it does not, the
\* filter is dropped (strictQuery) and every document matches.
ReschedulingRequest_findByExpertId(store, e) == {{}, store}

\* Variant of GetByExpert_Respond: no check for an empty result.
GetByExpert_Respond_NoEmptyCheck(found) ==
    [res |-> Response(HTTP_OK, "Rescheduling requests retrieved successfully", NoError),
     list |-> found]

\* The code after find(): 404 for an empty result, else the formatted list.
GetByExpert_Respond(found) ==
    IF Cardinality(found) = 0
    THEN [res |-> Response(HTTP_NOT_FOUND, "No reschedule requests found for this expert", NoError),
          list |-> {}]
    ELSE [res |-> Response(HTTP_OK, "Rescheduling requests retrieved successfully", NoError),
          list |-> found]

\* The catch block.
GetByExpert_Catch(error) == Response(HTTP_INTERNAL, "Internal server error", error)

\* The handler up to its first await: read req.params, call Expert.findById.
GetByExpert_Start(p) ==
    /\ pc[p] \in {"idle", "done"}
    /\ calls < MaxCalls
    /\ \E e \in ParamExpertIds : params' = [params EXCEPT ![p] = e]
    /\ pc' = [pc EXCEPT ![p] = "findExpert"]
    /\ body' = [body EXCEPT ![p] = NoBody]
    /\ res' = [res EXCEPT ![p] = NoResponse]
    /\ modified' = [modified EXCEPT ![p] = {}]
    /\ deleted' = [deleted EXCEPT ![p] = 0]
    /\ list' = [list EXCEPT ![p] = {}]
    /\ calls' = calls + 1
    /\ UNCHANGED <<bookings, requests>>

\* Expert.findById settles: 404 when there is no such expert, else find().
GetByExpert_FindExpert(p) ==
    /\ pc[p] = "findExpert"
    /\ \/ /\ pc' = [pc EXCEPT ![p] = "done"]
          /\ res' = [res EXCEPT ![p] = GetByExpert_Catch(StorageFailure)]
       \/ /\ ~Expert_findById(params[p])
          /\ pc' = [pc EXCEPT ![p] = "done"]
          /\ res' = [res EXCEPT ![p] = Response(HTTP_NOT_FOUND, "Expert not found", NoError)]
       \/ /\ Expert_findById(params[p])
          /\ pc' = [pc EXCEPT ![p] = "findRequests"]
          /\ UNCHANGED res
    /\ UNCHANGED <<bookings, requests, body, modified, calls, deleted, params, list>>

\* find() settles and the handler responds.
GetByExpert_FindRequests(p) ==
    /\ pc[p] = "findRequests"
    /\ \/ /\ res' = [res EXCEPT ![p] = GetByExpert_Catch(StorageFailure)]
          /\ UNCHANGED list
       \/ \E found \in ReschedulingRequest_findByExpertId(requests, params[p]) :
            /\ res' = [res EXCEPT ![p] = GetByExpert_Respond(found).res]
            /\ list' = [list EXCEPT ![p] = GetByExpert_Respond(found).list]
    /\ pc' = [pc EXCEPT ![p] = "done"]
    /\ UNCHANGED <<bookings, requests, body, modified, calls, deleted, params>>

----------------------------------------------------------------------------
(* GET /reschedule-requests and GET /admin/rescheduleRequests (admin list) *)

\* What populate() leaves in a path whose referenced document is not stored.
Null == "null"

\* Slot collection: the slots the Date documents name.
Slots == UNION {DateSlots[d] : d \in DOMAIN DateSlots}

\* populate() of one path: the projected document (named by its id) when
\* the referenced document is stored, null when it is not.
Populate(id, stored) == IF id \in stored THEN id ELSE Null

\* find() with the populate chain: every stored request, its three paths
\* populated from the Booking, Date and Slot documents stored at that moment.
\* `doc` is the request document the entry was read from.
AdminList_FindPopulate(store, bookingIds, dateIds, slotIds) ==
    {[doc              |-> r,
      CurrentBookingId |-> Populate(r.CurrentBookingId, bookingIds),
      RequestedDateId  |-> Populate(r.RequestedDateId, dateIds),
      RequestedSlotId  |-> Populate(r.RequestedSlotId, slotIds)] : r \in store}

\* Variant of AdminList_Respond: the formatting reads the expert of the
\* populated booking (request.CurrentBookingId.expertId), which throws a
\* TypeError on an entry whose booking is null.
AdminList_Respond_ReadsExpert(populated) ==
    IF \E e \in populated : e.CurrentBookingId = Null
    THEN [res |-> Response(HTTP_INTERNAL, "Internal server error", "TypeError"), list |-> {}]
    ELSE [res |-> Response(HTTP_OK, "Rescheduling requests retrieved successfully", NoError),
          list |-> populated]

\* The code after find(): requests.map copies the three populated paths of
\* each document, then 200 with the list.
AdminList_Respond(populated) ==
    [res |-> Response(HTTP_OK, "Rescheduling requests retrieved successfully", NoError),
     list |-> populated]

\* The catch block.
AdminList_Catch(error) == Response(HTTP_INTERNAL, "Internal server error", error)

\* The handler up to its await: call find() with the populate chain.
AdminList_Start(p) ==
    /\ pc[p] \in {"idle", "done"}
    /\ calls < MaxCalls
    /\ pc' = [pc EXCEPT ![p] = "adminFind"]
    /\ body' = [body EXCEPT ![p] = NoBody]
    /\ params' = [params EXCEPT ![p] = NoParam]
    /\ res' = [res EXCEPT ![p] = NoResponse]
    /\ modified' = [modified EXCEPT ![p] = {}]
    /\ deleted' = [deleted EXCEPT ![p] = 0]
    /\ list' = [list EXCEPT ![p] = {}]
    /\ calls' = calls + 1
    /\ UNCHANGED <<bookings, requests>>

\* find() settles and the handler responds.  The Date and Slot documents
\* stored at that moment are those left by the date routes (DELETE /:date_Id):
\* any subset of the ones created.
AdminList_Find(p) ==
    /\ pc[p] = "adminFind"
    /\ \/ /\ res' = [res EXCEPT ![p] = AdminList_Catch(StorageFailure)]
          /\ UNCHANGED list
       \/ \E dateIds \in SUBSET DOMAIN DateSlots, slotIds \in SUBSET Slots :
            LET populated == AdminList_FindPopulate(requests, DOMAIN bookings, dateIds, slotIds)
            IN /\ res' = [res EXCEPT ![p] = AdminList_Respond(populated).res]
               /\ list' = [list EXCEPT ![p] = AdminList_Respond(populated).list]
    /\ pc' = [pc EXCEPT ![p] = "done"]
    /\ UNCHANGED <<bookings, requests, body, modified, calls, deleted, params>>

----------------------------------------------------------------------------
(* The system *)

Init ==
    /\ bookings = [b \in ExistingBookings |->
                     [dateId |-> InitialDateId, slotId |-> InitialSlotId, status |-> CONFIRMED]]
    /\ requests = {}
    /\ pc = [p \in Procs |-> "idle"]
    /\ body = [p \in Procs |-> NoBody]
    /\ modified = [p \in Procs |-> {}]
    /\ res = [p \in Procs |-> NoResponse]
    /\ calls = 0
    /\ deleted = [p \in Procs |-> 0]
    /\ params = [p \in Procs |-> NoParam]
    /\ list = [p \in Procs |-> {}]

Next ==
    \E p \in Procs :
        \/ PostReschedule_Start(p)
        \/ PostReschedule_Save(p)
        \/ HandleReschedule_Start(p)
        \/ HandleReschedule_FindById(p)
        \/ HandleReschedule_BookingSave(p)
        \/ HandleReschedule_DeleteOne(p)

Spec == Init /\ [][Next]_vars

\* No handler is in flight.
Quiet == \A q \in Procs : pc[q] \in {"idle", "done"}

\* The two workflow routes with the requests issued one after another: a
\* request is received only when every earlier one has been answered.
NextSerial ==
    \E p \in Procs :
        \/ Quiet /\ PostReschedule_Start(p)
        \/ PostReschedule_Save(p)
        \/ Quiet /\ HandleReschedule_Start(p)
        \/ HandleReschedule_FindById(p)
        \/ HandleReschedule_BookingSave(p)
        \/ HandleReschedule_DeleteOne(p)

SpecSerial == Init /\ [][NextSerial]_vars

\* The two workflow routes with every awaited storage call settling (it
\* resolves or rejects), after which the event loop resumes the handler.
Settles ==
    \A p \in Procs :
        /\ WF_vars(PostReschedule_Save(p))
        /\ WF_vars(HandleReschedule_FindById(p))
        /\ WF_vars(HandleReschedule_BookingSave(p))
        /\ WF_vars(HandleReschedule_DeleteOne(p))

SpecLive == Init /\ [][Next]_vars /\ Settles

\* The two workflow routes together with the by-expert list route.
NextQuery ==
    \E p \in Procs :
        \/ PostReschedule_Start(p)
        \/ PostReschedule_Save(p)
        \/ HandleReschedule_Start(p)
        \/ HandleReschedule_FindById(p)
        \/ HandleReschedule_BookingSave(p)
        \/ HandleReschedule_DeleteOne(p)
        \/ GetByExpert_Start(p)
        \/ GetByExpert_FindExpert(p)
        \/ GetByExpert_FindRequests(p)

SpecQuery == Init /\ [][NextQuery]_vars

\* The two workflow routes together with the admin list route.
NextAdmin ==
    \E p \in Procs :
        \/ PostReschedule_Start(p)
        \/ PostReschedule_Save(p)
        \/ HandleReschedule_Start(p)
        \/ HandleReschedule_FindById(p)
        \/ HandleReschedule_BookingSave(p)
        \/ HandleReschedule_DeleteOne(p)
        \/ AdminList_Start(p)
        \/ AdminList_Find(p)

SpecAdmin == Init /\ [][NextAdmin]_vars

----------------------------------------------------------------------------
(* Vocabulary of the properties *)

\* The handler invocation p is a POST /reschedule (submit).
IsSubmit(bd) == bd.CurrentBookingId # "-" /\ bd.action = "-"

\* The handler invocation p is a POST /handle-Reschedule (decide).
IsDecide(bd) == bd.action \in Actions

IsSuccess(r) == r.status \in {HTTP_OK, HTTP_CREATED}

\* The generic response every unexpected failure is answered with.
IsInternalError(r) == r.status = HTTP_INTERNAL /\ r.message = "Internal server error"

\* p takes a step.
StepOf(p) == <<pc[p], body[p], res[p], modified[p]>>' # <<pc[p], body[p], res[p], modified[p]>>

StoresUnchanged == bookings' = bookings /\ requests' = requests

AtMostOneRequestPerBooking ==
    \A b \in BodyBookingIds : Cardinality(RequestsFor(requests, b)) <= 1

----------------------------------------------------------------------------
(* C1 *)

\* C1: in every reachable state at most one ReschedulingRequest references a
\* given booking, and a submit whose save() is refused because a request for
\* its booking is already stored (the loser of two concurrent submits) is
\* answered with a ConflictError: a failure that is not the generic internal
\* error.
C1_OneRequestPerBookingOrConflict ==
    /\ []AtMostOneRequestPerBooking
    /\ [][\A p \in Procs :
            (/\ pc[p] = "save"
             /\ pc'[p] = "done"
             /\ RequestsFor(requests, body[p].CurrentBookingId) # {}
             /\ res'[p].error # StorageFailure)
            => (~IsSuccess(res'[p]) /\ ~IsInternalError(res'[p]))]_vars

----------------------------------------------------------------------------
(* C2 *)

\* C2: when a decide(B, accepted) completes with success while the request
\* (B, D, S) is stored, booking B ends with dateId = D, slotId = S and status
\* RESCHEDULED, and no request referencing B is stored.
C2_AcceptAppliesSubmittedValues ==
    [][\A p \in Procs :
         (/\ pc[p] = "deleteOne"
          /\ body[p].action = "accepted"
          /\ IsSuccess(res'[p]))
         => LET b == body[p].CurrentBookingId
            IN /\ \A r \in RequestsFor(requests, b) :
                    bookings'[b] = [dateId |-> r.RequestedDateId,
                                    slotId |-> r.RequestedSlotId,
                                    status |-> RESCHEDULED]
               /\ RequestsFor(requests', b) = {}]_vars

----------------------------------------------------------------------------
(* C3 *)

----------------------------------------------------------------------------
(* C4 *)

\* C4: a decide (accepted or rejected) for an existing booking that performs
\* a storage write while no request referencing the booking is stored changes
\* no booking and does not report success.
C4_DecideWithoutRequestIsNotFound ==
    [][\A p \in Procs :
         (/\ pc[p] \in {"bookingSave", "deleteOne"}
          /\ pc'[p] # pc[p]
          /\ body[p].action \in {"accepted", "rejected"}
          /\ RequestsFor(requests, body[p].CurrentBookingId) = {})
         => (bookings' = bookings /\ ~IsSuccess(res'[p]))]_vars

----------------------------------------------------------------------------
(* C5 *)

\* C5 as stated: a decide with an action outside {accepted, rejected} whose
\* storage calls do not fail is answered 400 "Invalid action", whatever the
\* stores hold.
C5_InvalidActionAlways400 ==
    \A p \in Procs :
        (/\ pc[p] = "done"
         /\ IsDecide(body[p])
         /\ body[p].action \notin {"accepted", "rejected"}
         /\ res[p].error # StorageFailure)
        => (res[p].status = HTTP_BAD_REQUEST /\ res[p].message = "Invalid action")

\* C5 amended: a decide with an action outside {accepted, rejected} never
\* changes a booking or a request; when its booking lookup does not fail it
\* is answered 400 "Invalid action" if the booking exists and 404 "Booking
\* not found" if it does not.
C5_InvalidActionNoMutation ==
    /\ [](\A p \in Procs :
            (/\ pc[p] = "done"
             /\ IsDecide(body[p])
             /\ body[p].action \notin {"accepted", "rejected"}
             /\ res[p].error # StorageFailure)
            => IF body[p].CurrentBookingId \in DOMAIN bookings
               THEN res[p].status = HTTP_BAD_REQUEST /\ res[p].message = "Invalid action"
               ELSE res[p].status = HTTP_NOT_FOUND /\ res[p].message = "Booking not found")
    /\ [][\A p \in Procs :
            (/\ StepOf(p)
             /\ IsDecide(body'[p])
             /\ body'[p].action \notin {"accepted", "rejected"})
            => StoresUnchanged]_vars

\* An invalid action was answered 400 for an existing booking that has a
\* pending request.
C5_Witness ==
    \E p \in Procs :
        /\ pc[p] = "done"
        /\ body[p].action = "postponed"
        /\ body[p].CurrentBookingId \in ExistingBookings
        /\ RequestsFor(requests, body[p].CurrentBookingId) # {}
        /\ res[p].status = HTTP_BAD_REQUEST
        /\ res[p].message = "Invalid action"

----------------------------------------------------------------------------
(* C6 *)

\* C6: a decide whose bookingId names no booking never changes a booking or a
\* request, and when its lookup does not fail it is answered 404 "Booking not
\* found" whatever the action and the identifiers of the body are.
C6_MissingBookingIs404 ==
    /\ [](\A p \in Procs :
            (/\ pc[p] = "done"
             /\ IsDecide(body[p])
             /\ body[p].CurrentBookingId \notin DOMAIN bookings
             /\ res[p].error # StorageFailure)
            => (res[p].status = HTTP_NOT_FOUND /\ res[p].message = "Booking not found"))
    /\ [][\A p \in Procs :
            (/\ StepOf(p)
             /\ IsDecide(body'[p])
             /\ body'[p].CurrentBookingId \notin DOMAIN bookings)
            => StoresUnchanged]_vars

\* A decide for a missing booking, with an action and identifiers that would
\* otherwise be refused or applied, was answered 404 while a request naming
\* that bookingId is stored.
C6_Witness ==
    \E p, q \in Procs :
        /\ pc[p] = "done" /\ pc[q] = "done"
        /\ body[p].CurrentBookingId \notin DOMAIN bookings
        /\ body[q].CurrentBookingId = body[p].CurrentBookingId
        /\ body[p].action = "postponed"
        /\ body[q].action = "accepted"
        /\ body[q].RequestedDateId = MalformedId
        /\ res[p].status = HTTP_NOT_FOUND
        /\ res[q].status = HTTP_NOT_FOUND
        /\ RequestsFor(requests, body[p].CurrentBookingId) # {}

----------------------------------------------------------------------------
(* C7 *)

\* C7: no state shows the booking of a decide(B, accepted) already updated
\* (RESCHEDULED with the new dateId and slotId) while the request referencing
\* B is still stored.
C7_AcceptIsAtomic ==
    \A p \in Procs :
        (/\ pc[p] = "deleteOne"
         /\ body[p].action = "accepted"
         /\ bookings[body[p].CurrentBookingId] = AcceptedValues(body[p]))
        => RequestsFor(requests, body[p].CurrentBookingId) = {}

----------------------------------------------------------------------------
(* C8 *)

\* C8: when, in a decide(B, accepted), the booking was saved and deleteOne
\* then fails (the request is still stored after the call settled), the
\* response is neither a success nor the generic internal error.
C8_DeleteFailureIsConsistencyError ==
    [][\A p \in Procs :
         (/\ pc[p] = "deleteOne"
          /\ pc'[p] = "done"
          /\ body[p].action = "accepted"
          /\ RequestsFor(requests, body[p].CurrentBookingId) # {}
          /\ requests' = requests)
         => (~IsSuccess(res'[p]) /\ ~IsInternalError(res'[p]))]_vars

----------------------------------------------------------------------------
(* C9 *)

\* C9: a submit whose save() settles while a request referencing its booking
\* is stored fails (no success response) and leaves the request store as it
\* was: no second request, and the stored one keeps its date and slot.
C9_SubmitWhilePendingFails ==
    [][\A p \in Procs :
         (/\ pc[p] = "save"
          /\ pc'[p] = "done"
          /\ RequestsFor(requests, body[p].CurrentBookingId) # {})
         => (requests' = requests /\ ~IsSuccess(res'[p]))]_vars

\* A submit was refused as a duplicate while the stored request for its
\* booking asks for another date.
C9_Witness ==
    \E p \in Procs :
        /\ pc[p] = "done"
        /\ IsSubmit(body[p])
        /\ res[p].error = DuplicateRequest
        /\ \E r \in RequestsFor(requests, body[p].CurrentBookingId) :
             r.RequestedDateId # body[p].RequestedDateId

----------------------------------------------------------------------------
(* C10 *)

\* C10: every stored ReschedulingRequest references an existing booking (a
\* submit for a bookingId that names no booking persists nothing).
C10_RequestsReferenceExistingBookings ==
    \A r \in requests : r.CurrentBookingId \in DOMAIN bookings

----------------------------------------------------------------------------
(* C11 *)

\* C11: a submit that is answered with success changes no booking, and its
\* only effect on the request store is one new ReschedulingRequest, the one
\* built from its body.
C11_SubmitOnlyAddsOneRequest ==
    [][\A p \in Procs :
         (pc[p] = "save" /\ pc'[p] = "done" /\ IsSuccess(res'[p]))
         => /\ bookings' = bookings
            /\ NewReschedulingRequest(body[p]) \notin requests
            /\ requests' = requests \cup {NewReschedulingRequest(body[p])}]_vars

\* A submit for an existing booking succeeded after another booking had been
\* rescheduled; its request is stored and its own booking is as it started.
C11_Witness ==
    \E p \in Procs :
        /\ pc[p] = "done"
        /\ IsSubmit(body[p])
        /\ res[p].status = HTTP_CREATED
        /\ body[p].CurrentBookingId \in ExistingBookings
        /\ NewReschedulingRequest(body[p]) \in requests
        /\ bookings[body[p].CurrentBookingId].status = CONFIRMED
        /\ \E b \in ExistingBookings : bookings[b].status = RESCHEDULED

----------------------------------------------------------------------------
(* C12 *)

----------------------------------------------------------------------------
(* C14 *)

\* C14: when booking.save() of a decide(B, accepted) writes booking B while a
\* request for B is stored, the dateId and slotId written are that request's
\* RequestedDateId and RequestedSlotId, whatever the decide call supplies.
C14_AcceptWritesStoredRequest ==
    [][\A p \in Procs :
         (/\ pc[p] = "bookingSave"
          /\ pc'[p] = "deleteOne")
         => \A r \in RequestsFor(requests, body[p].CurrentBookingId) :
               /\ bookings'[body[p].CurrentBookingId].dateId = r.RequestedDateId
               /\ bookings'[body[p].CurrentBookingId].slotId = r.RequestedSlotId]_vars

----------------------------------------------------------------------------
(* C15 *)

\* C15: with requests handled one after another, once a decide for booking
\* B has succeeded and removed B's request, and no request for B is stored
\* (none was submitted since), the booking.save() of a further
\* decide(B, accepted) does not change B's dateId, slotId or status.
C15_NoReacceptAfterResolution ==
    [][\A p, q \in Procs :
         (/\ p # q
          /\ pc[q] = "done" /\ IsDecide(body[q]) /\ IsSuccess(res[q])
          /\ deleted[q] = 1
          /\ body[q].CurrentBookingId = body[p].CurrentBookingId
          /\ pc[p] = "bookingSave"
          /\ pc'[p] # pc[p]
          /\ RequestsFor(requests, body[p].CurrentBookingId) = {})
         => bookings'[body[p].CurrentBookingId] = bookings[body[p].CurrentBookingId]]_vars

----------------------------------------------------------------------------
(* C16 *)

\* C16: of two decide calls for the same booking with one pending request,
\* the one whose deleteOne settles after the other has succeeded and removed
\* the request, with no request for the booking left, does not report
\* success as well.
C16_AtMostOneDecideSucceeds ==
    [][\A p, q \in Procs :
         (/\ p # q
          /\ pc[p] = "done" /\ IsDecide(body[p]) /\ IsSuccess(res[p])
          /\ deleted[p] = 1
          /\ body[q].CurrentBookingId = body[p].CurrentBookingId
          /\ pc[q] = "deleteOne"
          /\ pc'[q] = "done"
          /\ RequestsFor(requests, body[q].CurrentBookingId) = {})
         => ~IsSuccess(res'[q])]_vars

----------------------------------------------------------------------------
(* C17 *)

\* C17: a booking with status RESCHEDULED has a dateId that names an existing
\* Date and a slotId that names a slot owned by that Date.
C17_RescheduledReferencesValidDateSlot ==
    \A b \in DOMAIN bookings :
        bookings[b].status = RESCHEDULED
        => /\ bookings[b].dateId \in DOMAIN DateSlots
           /\ bookings[b].slotId \in DateSlots[bookings[b].dateId]

----------------------------------------------------------------------------
(* C18 *)

\* C18: a decide(B, accepted) for an existing booking B whose RequestedDateId
\* or RequestedSlotId is not a well-formed identifier changes no booking and
\* no request, and when its lookup does not fail it is answered 400 "Invalid
\* date or slot ID".
C18_InvalidIdsRefused ==
    /\ [](\A p \in Procs :
            (/\ pc[p] = "done"
             /\ body[p].action = "accepted"
             /\ body[p].CurrentBookingId \in DOMAIN bookings
             /\ (~ObjectIdIsValid(body[p].RequestedDateId)
                 \/ ~ObjectIdIsValid(body[p].RequestedSlotId))
             /\ res[p].error # StorageFailure)
            => (/\ res[p].status = HTTP_BAD_REQUEST
                /\ res[p].message = "Invalid date or slot ID"))
    /\ [][\A p \in Procs :
            (/\ StepOf(p)
             /\ body'[p].action = "accepted"
             /\ (~ObjectIdIsValid(body'[p].RequestedDateId)
                 \/ ~ObjectIdIsValid(body'[p].RequestedSlotId)))
            => StoresUnchanged]_vars

\* An accept with a well-formed date and a malformed slot was answered 400
\* while a request for its booking is pending and the booking is untouched.
C18_Witness ==
    \E p \in Procs :
        /\ pc[p] = "done"
        /\ body[p].action = "accepted"
        /\ body[p].CurrentBookingId \in ExistingBookings
        /\ ObjectIdIsValid(body[p].RequestedDateId)
        /\ ~ObjectIdIsValid(body[p].RequestedSlotId)
        /\ res[p].status = HTTP_BAD_REQUEST
        /\ RequestsFor(requests, body[p].CurrentBookingId) # {}
        /\ bookings[body[p].CurrentBookingId].status = CONFIRMED

----------------------------------------------------------------------------
(* C19 *)

\* C19: on every store the program reaches, deleteOne for a booking without
\* a request leaves the store as it is, and deleteOne applied to its own
\* result removes nothing more; a handler whose deleteOne settles while no
\* request references its booking gets no error from it (unless storage
\* itself fails) and the store is unchanged.
C19_DeleteByBookingIdempotent ==
    /\ [](\A b \in BodyBookingIds :
            /\ RequestsFor(requests, b) = {}
               => ReschedulingRequest_deleteOne(requests, b) = {requests}
            /\ \A once \in ReschedulingRequest_deleteOne(requests, b) :
                 ReschedulingRequest_deleteOne(once, b) = {once})
    /\ [][\A p \in Procs :
            (/\ pc[p] = "deleteOne"
             /\ pc'[p] = "done"
             /\ RequestsFor(requests, body[p].CurrentBookingId) = {}
             /\ res'[p].error # StorageFailure)
            => (requests' = requests /\ IsSuccess(res'[p]))]_vars

\* Two rejections of the same booking have both run their deleteOne; the
\* second one found nothing to delete.
C19_Witness ==
    \E p, q \in Procs :
        /\ p # q
        /\ calls = MaxCalls
        /\ pc[p] = "done" /\ body[p].action = "rejected" /\ res[p].status = HTTP_OK
        /\ pc[q] = "done" /\ body[q].action = "rejected" /\ res[q].status = HTTP_OK
        /\ body[p].CurrentBookingId = body[q].CurrentBookingId
        /\ body[p].CurrentBookingId \in ExistingBookings
        /\ RequestsFor(requests, body[p].CurrentBookingId) = {}

----------------------------------------------------------------------------
(* C13 *)

\* The handler invocation p is a GET /reschedule-requests/:ExpertId.
IsByExpertQuery(p) == params[p] # NoParam

\* C13: a by-expert query whose storage calls do not fail is answered 404
\* "Expert not found" when the expert does not exist; when the expert exists
\* it is answered either 404 with another message (no request matched) or
\* success with a non-empty list, never success with an empty list.
C13_ByExpertNotFoundsDistinct ==
    \A p \in Procs :
        (/\ pc[p] = "done"
         /\ IsByExpertQuery(p)
         /\ res[p].error # StorageFailure)
        => IF params[p] \notin Experts
           THEN res[p].status = HTTP_NOT_FOUND /\ res[p].message = "Expert not found"
           ELSE \/ /\ res[p].status = HTTP_NOT_FOUND
                   /\ res[p].message # "Expert not found"
                   /\ list[p] = {}
                \/ /\ res[p].status = HTTP_OK
                   /\ list[p] # {}

\* One query for a missing expert and one for an existing expert without a
\* matching request were both answered 404, with different messages.
C13_Witness ==
    \E p, q \in Procs :
        /\ pc[p] = "done" /\ IsByExpertQuery(p) /\ params[p] \notin Experts
        /\ pc[q] = "done" /\ IsByExpertQuery(q) /\ params[q] \in Experts
        /\ res[p].status = HTTP_NOT_FOUND
        /\ res[q].status = HTTP_NOT_FOUND
        /\ res[p].message # res[q].message

----------------------------------------------------------------------------
(* C20 *)

\* C20: when find() of a by-expert query for an existing expert E settles
\* without a storage failure, the query succeeds whenever some stored request
\* is for a booking of E, and the list it returns holds exactly the stored
\* requests whose booking belongs to E.
C20_ByExpertListsExactlyExpertsRequests ==
    [][\A p \in Procs :
         (/\ pc[p] = "findRequests"
          /\ pc'[p] = "done"
          /\ res'[p].error # StorageFailure)
         => LET mine == {r \in requests :
                           /\ r.CurrentBookingId \in DOMAIN BookingExpertId
                           /\ BookingExpertId[r.CurrentBookingId] = params[p]}
            IN /\ list'[p] = mine
               /\ mine # {} => res'[p].status = HTTP_OK]_vars

----------------------------------------------------------------------------
(* C21 *)

\* The handler invocation p is an admin list.
IsAdminList(p) == pc[p] # "idle" /\ body[p] = NoBody /\ params[p] = NoParam

\* C21: when find() of an admin list settles without a storage failure the
\* list is answered with success and holds exactly one entry for every stored
\* request; in each entry a path is either the referenced document or null,
\* and it is null when the request references a Booking or a Date that is
\* not stored.
C21_AdminListToleratesMissingDocuments ==
    [][\A p \in Procs :
         (/\ pc[p] = "adminFind"
          /\ pc'[p] = "done"
          /\ res'[p].error # StorageFailure)
         => /\ res'[p].status = HTTP_OK
            /\ {e.doc : e \in list'[p]} = requests
            /\ Cardinality(list'[p]) = Cardinality(requests)
            /\ \A e \in list'[p] :
                 /\ e.CurrentBookingId =
                      IF e.doc.CurrentBookingId \in DOMAIN bookings
                      THEN e.doc.CurrentBookingId ELSE Null
                 /\ e.RequestedDateId \in {e.doc.RequestedDateId, Null}
                 /\ e.RequestedSlotId \in {e.doc.RequestedSlotId, Null}
                 /\ e.doc.RequestedDateId \notin DOMAIN DateSlots
                      => e.RequestedDateId = Null]_vars

\* An admin list was answered with success with two entries: one whose
\* booking is not stored, one whose date is not stored, one whose slot is not
\* stored, next to an entry whose booking and date are.
C21_Witness ==
    \E p \in Procs :
        /\ pc[p] = "done"
        /\ IsAdminList(p)
        /\ res[p].status = HTTP_OK
        /\ Cardinality(list[p]) = 2
        /\ {e.doc : e \in list[p]} = requests
        /\ \E e \in list[p] : e.CurrentBookingId = Null
        /\ \E e \in list[p] : e.RequestedDateId = Null
        /\ \E e \in list[p] : e.RequestedSlotId = Null
        /\ \E e \in list[p] : e.CurrentBookingId # Null /\ e.RequestedDateId # Null

----------------------------------------------------------------------------
(* C22 *)

\* C22: in every reachable state the Booking collection holds exactly the
\* bookings it started with, and a step changes a booking only when it is
\* the booking.save() of a decide with action accepted, which changes the
\* booking of that decide and no other.
C22_BookingsOnlyChangedByAccept ==
    /\ [](DOMAIN bookings = ExistingBookings)
    /\ [][bookings' # bookings
          => \E p \in Procs :
               /\ pc[p] = "bookingSave"
               /\ pc'[p] = "deleteOne"
               /\ body[p].action = "accepted"
               /\ \A b \in DOMAIN bookings :
                    b # body[p].CurrentBookingId => bookings'[b] = bookings[b]]_vars

\* Three requests were handled, an admin list among them answered with
\* success; an accept has rescheduled one booking and the other booking is
\* as it started.
C22_Witness ==
    \E p \in Procs :
        /\ calls = MaxCalls
        /\ pc[p] = "done"
        /\ IsAdminList(p)
        /\ res[p].status = HTTP_OK
        /\ \E b \in ExistingBookings : bookings[b].status = RESCHEDULED
        /\ \E b \in ExistingBookings :
             bookings[b] = [dateId |-> InitialDateId, slotId |-> InitialSlotId,
                            status |-> CONFIRMED]

----------------------------------------------------------------------------
(* C23 *)

\* C23: a step of a submit or of a decide for booking B changes no booking
\* other than B and no request that references a booking other than B.
C23_OtherBookingsUntouched ==
    [][\A p \in Procs :
         (StepOf(p) /\ (IsSubmit(body'[p]) \/ IsDecide(body'[p])))
         => \A b \in BodyBookingIds :
              b # body'[p].CurrentBookingId
              => /\ RequestsFor(requests', b) = RequestsFor(requests, b)
                 /\ b \in DOMAIN bookings => bookings'[b] = bookings[b]]_vars

\* A rejection for one booking has removed that booking's request while the
\* request filed for another booking is still stored and that booking is as
\* it started.
C23_Witness ==
    \E p \in Procs : \E b \in ExistingBookings :
        /\ pc[p] = "done"
        /\ body[p].action = "rejected"
        /\ res[p].status = HTTP_OK
        /\ deleted[p] = 1
        /\ b # body[p].CurrentBookingId
        /\ RequestsFor(requests, body[p].CurrentBookingId) = {}
        /\ RequestsFor(requests, b) # {}
        /\ bookings[b] = [dateId |-> InitialDateId, slotId |-> InitialSlotId,
                          status |-> CONFIRMED]

----------------------------------------------------------------------------
(* C24 *)

\* C24: with requests handled one after another and storage calls that may
\* fail at every step, a decide(B, accepted) reaches its deleteOne only with
\* booking B already saved as RESCHEDULED with the date and slot of the
\* call, and the only step of an accept that changes the request store is
\* that deleteOne: no accept removes B's request while B is not updated.
C24_AcceptSavesBeforeDelete ==
    /\ [](\A p \in Procs :
            (pc[p] = "deleteOne" /\ body[p].action = "accepted")
            => bookings[body[p].CurrentBookingId] = AcceptedValues(body[p]))
    /\ [][\A p \in Procs :
            (/\ StepOf(p)
             /\ body'[p].action = "accepted"
             /\ requests' # requests)
            => /\ pc[p] = "deleteOne"
               /\ bookings[body[p].CurrentBookingId] = AcceptedValues(body[p])
               /\ bookings' = bookings]_vars

\* After one submit, the deleteOne of the accept failed: the booking is
\* updated and its request is still stored.
C24_Witness ==
    \E p \in Procs :
        /\ calls = 2
        /\ pc[p] = "done"
        /\ body[p].action = "accepted"
        /\ res[p].error = StorageFailure
        /\ body[p].CurrentBookingId \in ExistingBookings
        /\ bookings[body[p].CurrentBookingId] = AcceptedValues(body[p])
        /\ RequestsFor(requests, body[p].CurrentBookingId) # {}

----------------------------------------------------------------------------
(* C25 *)

\* The handler invocation p is suspended at an await.
InFlight(p) == pc[p] \notin {"idle", "done"}

\* C25: an invocation of the submit or decide handler has sent no response
\* while it is suspended at an await and has sent one when it has returned;
\* a response once sent is not replaced by another one (it is cleared only
\* when the next request is received); and every invocation in flight
\* eventually returns, with its response sent.
C25_ExactlyOneResponse ==
    /\ [](\A p \in Procs :
            /\ InFlight(p) => res[p] = NoResponse
            /\ pc[p] = "done" => res[p] # NoResponse)
    /\ [][\A p \in Procs :
            (res[p] # NoResponse /\ res'[p] # res[p])
            => (pc[p] = "done" /\ calls' = calls + 1)]_vars
    /\ \A p \in Procs : InFlight(p) ~> (pc[p] = "done" /\ res[p] # NoResponse)

\* All requests were received and answered: one accept failed at its
\* deleteOne, after the booking was saved, and was answered with the internal
\* error; another handler was answered with success.
C25_Witness ==
    \E p, q \in Procs :
        /\ p # q
        /\ calls = MaxCalls
        /\ pc[p] = "done" /\ pc[q] = "done"
        /\ body[p].action = "accepted"
        /\ res[p].error = StorageFailure
        /\ body[p].CurrentBookingId \in ExistingBookings
        /\ bookings[body[p].CurrentBookingId].status = RESCHEDULED
        /\ IsSuccess(res[q])

====
